---- MODULE Spec2Model ----
(***************************************************************************)
(* Model of ports.c: the /proc/net table parser (parse_proc_net), the      *)
(* /proc/<pid>/fd scan that attaches owners (populate_owners), and the     *)
(* sort/filter/print stage (print_entries, print_json, print_table).       *)
(*                                                                         *)
(* C strings are modelled as sequences of byte values (0..255), so that    *)
(* strcmp, strtok_r, strtoul, sscanf, fgets and tolower are computed the   *)
(* way the C library computes them.  The three stages of main() are three  *)
(* specifications over the same variables: SpecParse, SpecScan, SpecPrint. *)
(* Memory allocation is assumed to succeed.                                *)
(***************************************************************************)
EXTENDS Integers, Sequences, FiniteSets, TLC

VARIABLES
    pc,              \* position in main(): which loop of which function runs next
    g_show_all,      \* -a
    g_search_port,   \* -p (0 when unset)
    g_search_name,   \* -n: [null |-> BOOLEAN, str |-> bytes]
    g_json,          \* -j
    g_sort_field,    \* -s: "SORT_PORT" | "SORT_PID" | "SORT_PROTO"
    g_sort_reverse,  \* -r
    head,            \* the sock_entry list, first element = *head
    handles,         \* open FILE*/DIR* handles, counted per kind
    tbl,             \* which of main's four parse_proc_net calls is running
    lineLog,         \* history: the data lines fgets returned, with their table
    curPid,          \* populate_owners: pid of the process being scanned
    seenPids,        \* history: numeric /proc entries readdir already returned
    fdReads,         \* number of descriptor entries readdir returned so far
    linkLog,         \* history: every successful readlink, [pid, target]
    skipLog,         \* history: pids whose fd directory could not be opened
    lastName,        \* history: what the last name lookups read and produced
    nameFiles,       \* the (comm, cmdline) files the processes of this run may show
    arr,             \* print_entries: the qsort-ed pointer array
    idx,             \* loop index i of print_json / print_table
    firstEntry,      \* print_json's firstEntry flag
    out              \* stdout, as a sequence of output items

vars == <<pc, g_show_all, g_search_port, g_search_name, g_json, g_sort_field,
          g_sort_reverse, head, handles, tbl, lineLog, curPid, seenPids,
          fdReads, linkLog, skipLog, lastName, nameFiles, arr, idx, firstEntry,
          out>>

cfgVars == <<g_show_all, g_search_port, g_search_name, g_json, g_sort_field,
             g_sort_reverse>>
parseVars == <<tbl, lineLog>>
scanVars == <<curPid, seenPids, fdReads, linkLog, skipLog, lastName, nameFiles>>
printVars == <<arr, idx, firstEntry, out>>

----------------------------------------------------------------------------
(* Bytes and C strings *)

\* The byte value of a character (ASCII), for the characters the inputs use.
Ord(c) ==
    CASE c = "\n" -> 10 [] c = " " -> 32 [] c = "-" -> 45 [] c = "." -> 46
      [] c = "0" -> 48 [] c = "1" -> 49 [] c = "2" -> 50 [] c = "3" -> 51
      [] c = "4" -> 52 [] c = "5" -> 53 [] c = "6" -> 54 [] c = "7" -> 55
      [] c = "8" -> 56 [] c = "9" -> 57 [] c = ":" -> 58 [] c = "?" -> 63
      [] c = "A" -> 65 [] c = "B" -> 66 [] c = "C" -> 67 [] c = "D" -> 68
      [] c = "E" -> 69 [] c = "F" -> 70 [] c = "H" -> 72 [] c = "S" -> 83
      [] c = "[" -> 91 [] c = "]" -> 93
      [] c = "a" -> 97 [] c = "c" -> 99 [] c = "d" -> 100 [] c = "e" -> 101
      [] c = "f" -> 102 [] c = "g" -> 103 [] c = "h" -> 104 [] c = "i" -> 105
      [] c = "k" -> 107 [] c = "l" -> 108 [] c = "n" -> 110 [] c = "o" -> 111
      [] c = "p" -> 112 [] c = "s" -> 115 [] c = "t" -> 116 [] c = "u" -> 117
      [] c = "x" -> 120

\* A tuple of one-character strings as a byte sequence: B(<<"0","A">>) = <<48,65>>.
B(s) == [i \in 1..Len(s) |-> Ord(s[i])]

Min(a, b) == IF a < b THEN a ELSE b

\* s[1..n], the first n bytes (all of s when it is shorter).
Take(s, n) == SubSeq(s, 1, Min(n, Len(s)))

\* Index of the first occurrence of byte c in s, 0 when there is none.
RECURSIVE IndexFrom(_, _, _)
IndexFrom(s, c, i) ==
    IF i > Len(s) THEN 0
    ELSE IF s[i] = c THEN i
    ELSE IndexFrom(s, c, i + 1)

IndexOf(s, c) == IndexFrom(s, c, 1)

\* The C string held in a buffer: the bytes before the first NUL.
CStr(buf) ==
    LET z == IndexOf(buf, 0)
    IN  IF z = 0 THEN buf ELSE SubSeq(buf, 1, z - 1)

\* strlen() of a buffer.
strlen(buf) == Len(CStr(buf))

\* strncpy(dst, src, n) into a zeroed buffer, read back as a C string.
strncpy(src, n) == Take(CStr(src), n)

\* strcmp(a, b): sign of the first differing byte (unsigned), 0 when equal.
RECURSIVE strcmpFrom(_, _, _)
strcmpFrom(a, b, i) ==
    LET ca == IF i <= Len(a) THEN a[i] ELSE 0
        cb == IF i <= Len(b) THEN b[i] ELSE 0
    IN  IF ca < cb THEN -1
        ELSE IF ca > cb THEN 1
        ELSE IF ca = 0 THEN 0
        ELSE strcmpFrom(a, b, i + 1)

strcmp(a, b) == strcmpFrom(a, b, 1)

\* tolower() in the "C" locale.
tolower(c) == IF c >= 65 /\ c <= 90 THEN c + 32 ELSE c

\* Value of a digit byte in the given base, -1 when it is no digit of it.
DigitVal(c, base) ==
    LET v == IF c >= 48 /\ c <= 57 THEN c - 48
             ELSE IF c >= 97 /\ c <= 122 THEN c - 97 + 10
             ELSE IF c >= 65 /\ c <= 90 THEN c - 65 + 10
             ELSE -1
    IN  IF v >= 0 /\ v < base THEN v ELSE -1

\* Number of leading bytes of s, from position i, that are digits of the base.
RECURSIVE DigitRun(_, _, _)
DigitRun(s, base, i) ==
    IF i > Len(s) \/ DigitVal(s[i], base) < 0 THEN 0
    ELSE 1 + DigitRun(s, base, i + 1)

\* Value of the digit string s[i..j] in the base, acc carried in.
RECURSIVE DigitsValue(_, _, _, _, _)
DigitsValue(s, base, i, j, acc) ==
    IF i > j THEN acc
    ELSE DigitsValue(s, base, i + 1, j, acc * base + DigitVal(s[i], base))

\* strtoul(s, &end, base) for an unsigned digit string (the tokens of the
\* tables carry no sign and no blanks): [val, end], end = index of *endptr.
strtoul(s, base) ==
    LET n == DigitRun(s, base, 1)
    IN  [val |-> DigitsValue(s, base, 1, n, 0), end |-> n + 1]

----------------------------------------------------------------------------
(* Table parser: parse_proc_net *)

\* Buffer sizes of the source.
TOKENS_MAX == 32
LOCAL_SIZE == 128
ST_SIZE == 16
PROTO_SIZE == 8
LOCAL_HEX_SIZE == 64
NAME_SIZE == 256
TARGET_SIZE == 1024

\* The four calls of main(), in order: the proto argument of call k.
ProtoOf(k) ==
    CASE k = 1 -> B(<<"t", "c", "p">>)
      [] k = 2 -> B(<<"t", "c", "p", "6">>)
      [] k = 3 -> B(<<"u", "d", "p">>)
      [] k = 4 -> B(<<"u", "d", "p", "6">>)

NumTables == 4

\* The delimiter set " \t\n" of strtok_r.
IsDelim(c) == c = 32 \/ c = 9 \/ c = 10

\* strtok_r(line, " \t\n") called until it returns NULL: the maximal runs of
\* non-delimiter bytes of the line, in order; cur is the run being read.
RECURSIVE TokensFrom(_, _, _)
TokensFrom(line, i, cur) ==
    IF i > Len(line)
    THEN IF cur = <<>> THEN <<>> ELSE <<cur>>
    ELSE IF IsDelim(line[i])
         THEN IF cur = <<>> THEN TokensFrom(line, i + 1, <<>>)
              ELSE <<cur>> \o TokensFrom(line, i + 1, <<>>)
         ELSE TokensFrom(line, i + 1, Append(cur, line[i]))

\* The tokens[] array after the tokenizing loop (at most 32 entries).
Tokenize(line) == Take(TokensFrom(CStr(line), 1, <<>>), TOKENS_MAX)

\* hex_to_port: (unsigned) strtoul(hex, NULL, 16).  The port and inode fields of
\* the modelled tables have at most four digits, far below the 32 and 64 bits
\* of unsigned and unsigned long, so no wrap-around is written.
hex_to_port(hex) == strtoul(hex, 16).val

\* A sock_entry (local_ip is hex_to_ipstr of local_hex and proto, fixed at
\* creation, and is not carried).
Entry(proto, local_hex, port, inode) ==
    [proto |-> strncpy(proto, PROTO_SIZE - 1),
     local_hex |-> strncpy(local_hex, LOCAL_HEX_SIZE - 1),
     port |-> port, inode |-> inode, owners |-> <<>>]

\* parse_line with the state compared on its first two bytes only
\* (strncmp(st, "0A", 2)).
parse_line_prefix_state(h, line, proto, only_listen) ==
    LET tokens == Tokenize(line)
        tokc == Len(tokens)
    IN  IF tokc < 4 THEN h
        ELSE
          LET local == strncpy(tokens[2], LOCAL_SIZE - 1)
              st == strncpy(tokens[4], ST_SIZE - 1)
              inode == IF tokc > 9 THEN strtoul(tokens[10], 10).val ELSE 0
              colon == IndexOf(local, 58)
          IN  IF only_listen /\ Take(st, 2) # B(<<"0", "A">>) THEN h
              ELSE IF colon = 0 THEN h
              ELSE <<Entry(proto, SubSeq(local, 1, colon - 1),
                           hex_to_port(SubSeq(local, colon + 1, Len(local))),
                           inode)>> \o h

\* parse_line that asks for the inode column too (tokc < 10) before it
\* accepts a line.
parse_line_needs_inode(h, line, proto, only_listen) ==
    LET tokens == Tokenize(line)
        tokc == Len(tokens)
    IN  IF tokc < 10 THEN h
        ELSE
          LET local == strncpy(tokens[2], LOCAL_SIZE - 1)
              st == strncpy(tokens[4], ST_SIZE - 1)
              inode == strtoul(tokens[10], 10).val
              colon == IndexOf(local, 58)
          IN  IF only_listen /\ strcmp(st, B(<<"0", "A">>)) # 0 THEN h
              ELSE IF colon = 0 THEN h
              ELSE <<Entry(proto, SubSeq(local, 1, colon - 1),
                           hex_to_port(SubSeq(local, colon + 1, Len(local))),
                           inode)>> \o h

\* One iteration of the while loop of parse_proc_net on a data line: the
\* list head after it.
parse_line(h, line, proto, only_listen) ==
    LET tokens == Tokenize(line)
        tokc == Len(tokens)
    IN  IF tokc < 4 THEN h
        ELSE
          LET local == strncpy(tokens[2], LOCAL_SIZE - 1)
              st == strncpy(tokens[4], ST_SIZE - 1)
              inode == IF tokc > 9
                       THEN strtoul(tokens[10], 10).val
                       ELSE 0
              colon == IndexOf(local, 58)
          IN  IF only_listen /\ strcmp(st, B(<<"0", "A">>)) # 0 THEN h
              ELSE IF colon = 0 THEN h
              ELSE
                LET porthex == SubSeq(local, colon + 1, Len(local))
                    hexpart == SubSeq(local, 1, colon - 1)
                IN  <<Entry(proto, hexpart, hex_to_port(porthex), inode)>> \o h

----------------------------------------------------------------------------
(* The tables the parser is run on *)

\* Most data lines fgets may return over one run of the four parses.
MaxLines == 3

\* Tokens joined by single blanks and ended by a newline: a line of a table.
RECURSIVE JoinFrom(_, _)
JoinFrom(toks, i) ==
    IF i > Len(toks) THEN <<10>>
    ELSE (IF i = 1 THEN <<>> ELSE <<32>>) \o toks[i] \o JoinFrom(toks, i + 1)

Line(toks) == JoinFrom(toks, 1)

\* The columns of /proc/net/tcp after st: tx:rx, tr:tm, retrnsmt, uid, timeout.
MidCols ==
    <<B(<<"0", ":", "0">>), B(<<"0", ":", "0">>), B(<<"0">>), B(<<"0">>),
      B(<<"0">>)>>

FullLine(local, st, inode) ==
    Line(<<B(<<"0", ":">>), local, B(<<"0", ":", "0">>), st>> \o MidCols
         \o <<inode>>)

\* 0100007F:0016 0A inode 5: a listening socket on port 22.
LineListen == FullLine(B(<<"7", "F", ":", "1", "6">>), B(<<"0", "A">>), B(<<"5">>))
\* 00000000:0050 06 inode 7: a socket in TIME_WAIT on port 80.
LineTimeWait == FullLine(B(<<"0", ":", "5", "0">>), B(<<"0", "6">>), B(<<"7">>))
\* Only two tokens.
LineShort == Line(<<B(<<"1", ":">>), B(<<"0", ":", "1", "6">>)>>)
\* Local address token without ':' (state 0A).
LineNoColon == FullLine(B(<<"7", "F", "1", "6">>), B(<<"0", "A">>), B(<<"6">>))
\* Exactly four tokens, state 0A: well formed, no inode column.
LineFour == Line(<<B(<<"2", ":">>), B(<<"0", ":", "3", "5">>), B(<<"0", ":", "0">>), B(<<"0", "A">>)>>)
\* A state token that only starts with 0A.
LineState0AB == FullLine(B(<<"0", ":", "1", "6">>), B(<<"0", "A", "B">>), B(<<"8">>))

Lines == {LineListen, LineTimeWait, LineShort, LineNoColon, LineFour, LineState0AB}

\* What the first line of a table may be: the column header, or anything else.
HeaderText == Line(<<B(<<"s", "l">>), B(<<"l", "o", "c", "a", "l">>), B(<<"s", "t">>)>>)

NoHandles == [table |-> 0, proc |-> 0, fd |-> 0, name |-> 0]

NoName == [null |-> TRUE, str |-> <<>>]

InitParse ==
    /\ pc = "parse_open"
    /\ g_show_all \in BOOLEAN
    /\ g_search_port = 0 /\ g_search_name = NoName /\ g_json = FALSE
    /\ g_sort_field = "SORT_PORT" /\ g_sort_reverse = FALSE
    /\ head = <<>> /\ handles = NoHandles
    /\ tbl = 1 /\ lineLog = <<>>
    /\ curPid = 0 /\ seenPids = {} /\ fdReads = 0 /\ linkLog = <<>>
    /\ skipLog = {} /\ lastName = {} /\ nameFiles = {}
    /\ arr = <<>> /\ idx = 0 /\ firstEntry = TRUE /\ out = <<>>

\* parse_proc_net returns: main goes on to its next call, or to populate_owners.
AfterTable == IF tbl < NumTables THEN "parse_open" ELSE "parsed"

NextTbl == IF tbl < NumTables THEN tbl + 1 ELSE tbl

\* fopen(path) fails: return at once.
ParseOpenFail ==
    /\ pc = "parse_open"
    /\ pc' = AfterTable /\ tbl' = NextTbl
    /\ UNCHANGED <<cfgVars, head, handles, lineLog, scanVars, printVars>>

ParseOpenOk ==
    /\ pc = "parse_open"
    /\ handles' = [handles EXCEPT !.table = @ + 1]
    /\ pc' = "parse_header"
    /\ UNCHANGED <<cfgVars, head, parseVars, scanVars, printVars>>

\* The first fgets returns NULL (empty file): fclose and return.
ParseHeaderEof ==
    /\ pc = "parse_header"
    /\ handles' = [handles EXCEPT !.table = @ - 1]
    /\ pc' = AfterTable /\ tbl' = NextTbl
    /\ UNCHANGED <<cfgVars, head, lineLog, scanVars, printVars>>

\* The first fgets returns a line, whatever it holds: it is dropped.
ParseHeader ==
    /\ pc = "parse_header"
    /\ \E l \in Lines \cup {HeaderText} : pc' = "parse_lines"
    /\ UNCHANGED <<cfgVars, head, handles, parseVars, scanVars, printVars>>

\* fgets returns a data line: one iteration of the while loop.
ParseLine ==
    /\ pc = "parse_lines"
    /\ Len(lineLog) < MaxLines
    /\ \E l \in Lines :
         /\ head' = parse_line(head, l, ProtoOf(tbl), ~g_show_all)
         /\ lineLog' = Append(lineLog, [tbl |-> tbl, line |-> l])
    /\ UNCHANGED <<pc, cfgVars, handles, tbl, scanVars, printVars>>

\* fgets returns NULL: fclose and return.
ParseEof ==
    /\ pc = "parse_lines"
    /\ handles' = [handles EXCEPT !.table = @ - 1]
    /\ pc' = AfterTable /\ tbl' = NextTbl
    /\ UNCHANGED <<cfgVars, head, lineLog, scanVars, printVars>>

NextParse ==
    \/ ParseOpenFail \/ ParseOpenOk \/ ParseHeaderEof \/ ParseHeader
    \/ ParseLine \/ ParseEof

SpecParse == InitParse /\ [][NextParse]_vars

\* fgets returns a data line that passes every test and malloc returns NULL:
\* continue, with the list as it was.
ParseLineNoMem ==
    /\ pc = "parse_lines"
    /\ Len(lineLog) < MaxLines
    /\ \E l \in Lines :
         /\ parse_line(head, l, ProtoOf(tbl), ~g_show_all) # head
         /\ lineLog' = Append(lineLog, [tbl |-> tbl, line |-> l])
    /\ UNCHANGED <<pc, cfgVars, head, handles, tbl, scanVars, printVars>>

----------------------------------------------------------------------------
(* Owner scan: populate_owners *)

\* Most processes in /proc, most descriptor links read over one scan, and most
\* socket records in the list the scan is run on.
MaxPid == 2
MaxFds == 2
MaxRecs == 2

\* The decimal digits of n, as the kernel prints pids and inode numbers.
RECURSIVE Dec(_)
Dec(n) == IF n < 10 THEN <<48 + n>> ELSE Dec(n \div 10) \o <<48 + (n % 10)>>

SocketPrefix == B(<<"s", "o", "c", "k", "e", "t", ":", "[">>)

\* strtol(d_name, &endptr, 10): a directory name is a pid when *endptr is the
\* terminating NUL.
IsNumericName(name) == strtoul(name, 10).end = Len(CStr(name)) + 1

\* readlink(linkpath, target, sizeof(target) - 1) followed by target[r] = 0.
readlink(t) == Take(t, TARGET_SIZE - 1)

\* sscanf(target, "socket:[%lu]", &inode): the literal prefix, then at least
\* one decimal digit; what follows the digits is not looked at.
sscanf_socket(target) ==
    LET k == Len(SocketPrefix)
        rest == SubSeq(target, k + 1, Len(target))
    IN  IF Take(target, k) = SocketPrefix /\ DigitRun(rest, 10, 1) > 0
        THEN [n |-> 1, inode |-> strtoul(rest, 10).val]
        ELSE [n |-> 0, inode |-> 0]

\* fgets(buf, size, f) on a file holding data: NULL (<<>> here, with ok FALSE)
\* at end of file, else the bytes up to and including the first newline, at
\* most size - 1 of them.
fgets(size, data) ==
    LET nl == IndexOf(data, 10)
        upto == IF nl = 0 THEN Len(data) ELSE nl
    IN  [ok |-> data # <<>>, buf |-> Take(data, Min(upto, size - 1))]

\* The comm[] buffer after the "read comm or cmdline" block.  commF and cmdF
\* are what fopen and the file hold: [open, data].
read_name(commF, cmdF) ==
    LET q == B(<<"?">>)
    IN  IF commF.open
        THEN LET r == fgets(NAME_SIZE, commF.data)
                 L == strlen(r.buf)
             IN  IF ~r.ok THEN q
                 ELSE IF L > 0 /\ r.buf[L] = 10
                      THEN [r.buf EXCEPT ![L] = 0]
                      ELSE r.buf
        ELSE IF cmdF.open
             THEN LET r == fgets(NAME_SIZE, cmdF.data)
                  IN  IF ~r.ok THEN q
                      ELSE [i \in DOMAIN r.buf |->
                              IF i <= strlen(r.buf) /\ r.buf[i] = 0
                              THEN 32 ELSE r.buf[i]]
             ELSE q

\* Sum of f over the finite set S of its arguments.
RECURSIVE Sum(_, _)
Sum(f, S) ==
    IF S = {} THEN 0
    ELSE LET x == CHOOSE y \in S : TRUE IN f[x] + Sum(f, S \ {x})

\* FILE handles the "read comm or cmdline" block gets from fopen: comm, and
\* cmdline only when comm could not be opened.
name_fopens(commF, cmdF) ==
    IF commF.open THEN 1 ELSE IF cmdF.open THEN 1 ELSE 0

\* The block with each fclose moved inside the if (fgets(...)) before it.
name_fcloses_after_read(commF, cmdF) ==
    IF commF.open
    THEN IF fgets(NAME_SIZE, commF.data).ok THEN 1 ELSE 0
    ELSE IF cmdF.open
         THEN IF fgets(NAME_SIZE, cmdF.data).ok THEN 1 ELSE 0
         ELSE 0

\* fclose calls of the block: fclose(c) closes the `if (c)` branch and
\* fclose(cl) the `if (cl)` branch, whatever fgets returned.
name_fcloses(commF, cmdF) ==
    IF commF.open THEN 1 ELSE IF cmdF.open THEN 1 ELSE 0

\* add_owner that leaves the list alone when the pid already owns the entry.
add_owner_dedup(e, pid, name) ==
    IF \E k \in DOMAIN e.owners : e.owners[k].pid = pid THEN e
    ELSE [e EXCEPT !.owners = <<[pid |-> pid, name |-> strncpy(name, NAME_SIZE - 1)]>> \o @]

\* add_owner that links the new owner_info behind the last one of e->owners.
add_owner_append(e, pid, name) ==
    [e EXCEPT !.owners = @ \o <<[pid |-> pid, name |-> strncpy(name, NAME_SIZE - 1)]>>]

\* add_owner: a new owner_info in front of e->owners.
add_owner(e, pid, name) ==
    [e EXCEPT !.owners = <<[pid |-> pid, name |-> strncpy(name, NAME_SIZE - 1)]>> \o @]

\* The matching loop without its !e->inode test.
Matches_no_zero_test(h, inode) == {i \in DOMAIN h : h[i].inode = inode}

\* The entries the matching loop does not skip for a scanned inode number.
Matches(h, inode) == {i \in DOMAIN h : ~(h[i].inode = 0 \/ h[i].inode # inode)}

\* The list after the matching loop; nm[i] is the name buffer read for entry i.
attach_owners(h, pid, inode, nm) ==
    [i \in DOMAIN h |->
        IF i \in Matches(h, inode) THEN add_owner(h[i], pid, nm[i]) ELSE h[i]]

----------------------------------------------------------------------------
(* The /proc tree the scan is run on *)

Tcp == B(<<"t", "c", "p">>)
Tcp6 == B(<<"t", "c", "p", "6">>)
Udp == B(<<"u", "d", "p">>)

\* Socket records as parse_proc_net builds them: two sockets with their own
\* inode, and one whose table line had no inode column (inode 0).
ScanEntries ==
    {Entry(Tcp, B(<<"7", "F">>), 22, 1), Entry(Tcp6, B(<<"0">>), 80, 2),
     Entry(Udp, B(<<"0">>), 53, 0)}

SeqsUpTo(S, n) == UNION {[1..k -> S] : k \in 0..n}

\* The lists the scan is run on: a socket is one line of one table, so no
\* record comes twice.
ScanHeads ==
    {h \in SeqsUpTo(ScanEntries, MaxRecs) :
       \A i, j \in DOMAIN h : i # j => h[i] # h[j]}

\* Names readdir("/proc") returns: one that is no number, and the pids (which
\* /proc lists in ascending order).
ProcNames == {B(<<"s", "e", "l", "f">>)} \cup {Dec(p) : p \in 1..MaxPid}

\* Link targets readlink returns: sockets 0..2, and a pipe.
Targets ==
    {SocketPrefix \o Dec(n) \o B(<<"]">>) : n \in 0..2}
      \cup {B(<<"p", "i", "p", "e", ":", "[", "1", "]">>)}

Closed == [open |-> FALSE, data |-> <<>>]

\* /proc/<pid>/comm: unreadable, readable with "sshd\n", or yielding nothing.
CommSshd == [open |-> TRUE, data |-> B(<<"s", "s", "h", "d", "\n">>)]

CommFiles == {Closed, CommSshd, [open |-> TRUE, data |-> <<>>]}

\* /proc/<pid>/cmdline: unreadable, or "nginx\0-g\0".
CmdlineFiles ==
    {Closed,
     [open |-> TRUE, data |-> B(<<"n", "g", "i", "n", "x">>) \o <<0>>
                               \o B(<<"-", "g">>) \o <<0>>]}

InitScan ==
    /\ pc = "scan_open"
    /\ g_show_all = FALSE
    /\ g_search_port = 0 /\ g_search_name = NoName /\ g_json = FALSE
    /\ g_sort_field = "SORT_PORT" /\ g_sort_reverse = FALSE
    /\ head \in ScanHeads
    /\ handles = NoHandles
    /\ tbl = NumTables /\ lineLog = <<>>
    /\ curPid = 0 /\ seenPids = {} /\ fdReads = 0 /\ linkLog = <<>>
    /\ skipLog = {} /\ lastName = {}
    /\ nameFiles = {<<CommSshd, Closed>>}
    /\ arr = <<>> /\ idx = 0 /\ firstEntry = TRUE /\ out = <<>>

\* opendir("/proc") fails: return.
ScanOpenProcFail ==
    /\ pc = "scan_open"
    /\ pc' = "scan_done"
    /\ UNCHANGED <<cfgVars, head, handles, parseVars, scanVars, printVars>>

ScanOpenProc ==
    /\ pc = "scan_open"
    /\ handles' = [handles EXCEPT !.proc = @ + 1]
    /\ pc' = "scan_proc"
    /\ UNCHANGED <<cfgVars, head, parseVars, scanVars, printVars>>

\* readdir(proc) returns a name that is no number: continue.
ScanProcSkip ==
    /\ pc = "scan_proc"
    /\ \E name \in ProcNames : ~IsNumericName(name)
    /\ UNCHANGED vars

\* readdir(proc) returns a pid whose fd directory cannot be opened: continue.
ScanFdOpenFail ==
    /\ pc = "scan_proc"
    /\ \E name \in ProcNames :
         LET pid == strtoul(name, 10).val
         IN  /\ IsNumericName(name) /\ \A q \in seenPids : q < pid
             /\ seenPids' = seenPids \cup {pid}
             /\ skipLog' = skipLog \cup {pid}
    /\ UNCHANGED <<pc, cfgVars, head, handles, parseVars, curPid, fdReads,
                   linkLog, lastName, nameFiles, printVars>>

\* readdir(proc) returns a pid and opendir("/proc/<pid>/fd") succeeds.
ScanFdOpen ==
    /\ pc = "scan_proc"
    /\ \E name \in ProcNames :
         LET pid == strtoul(name, 10).val
         IN  /\ IsNumericName(name) /\ \A q \in seenPids : q < pid
             /\ seenPids' = seenPids \cup {pid}
             /\ curPid' = pid
    /\ handles' = [handles EXCEPT !.fd = @ + 1]
    /\ pc' = "scan_fd"
    /\ UNCHANGED <<cfgVars, head, parseVars, fdReads, linkLog, skipLog,
                   lastName, nameFiles, printVars>>

\* readdir(proc) returns NULL: closedir(proc) and return.
ScanProcEnd ==
    /\ pc = "scan_proc"
    /\ handles' = [handles EXCEPT !.proc = @ - 1]
    /\ pc' = "scan_done"
    /\ UNCHANGED <<cfgVars, head, parseVars, scanVars, printVars>>

\* readdir(fd) returns "." or "..": continue.
ScanFdDot ==
    /\ pc = "scan_fd"
    /\ \E name \in {B(<<".">>), B(<<".", ".">>)} :
         strcmp(name, B(<<".">>)) = 0 \/ strcmp(name, B(<<".", ".">>)) = 0
    /\ UNCHANGED vars

\* A failed readlink that leaves the descriptor loop (break) instead of going
\* on to the next descriptor.
ScanLinkFail_break ==
    /\ pc = "scan_fd"
    /\ fdReads < MaxFds
    /\ fdReads' = fdReads + 1
    /\ handles' = [handles EXCEPT !.fd = @ - 1]
    /\ pc' = "scan_proc"
    /\ UNCHANGED <<cfgVars, head, parseVars, curPid, seenPids, linkLog,
                   skipLog, lastName, nameFiles, printVars>>

\* readdir(fd) returns a descriptor and readlink fails (r <= 0): continue.
ScanLinkFail ==
    /\ pc = "scan_fd"
    /\ fdReads < MaxFds
    /\ fdReads' = fdReads + 1
    /\ UNCHANGED <<pc, cfgVars, head, handles, parseVars, curPid, seenPids,
                   linkLog, skipLog, lastName, nameFiles, printVars>>

\* readdir(fd) returns a descriptor and readlink succeeds: the sscanf, and for
\* a socket target the matching loop with one name lookup per matching entry.
ScanLink ==
    /\ pc = "scan_fd"
    /\ fdReads < MaxFds
    /\ fdReads' = fdReads + 1
    /\ \E t \in Targets :
         LET target == readlink(t)
             sc == sscanf_socket(target)
         IN  /\ linkLog' = Append(linkLog, [pid |-> curPid, target |-> target])
             /\ IF sc.n = 1
                THEN \E src \in [Matches(head, sc.inode) -> nameFiles] :
                       LET nm == [i \in DOMAIN src |->
                                    read_name(src[i][1], src[i][2])]
                           left == [i \in DOMAIN src |->
                                      name_fopens(src[i][1], src[i][2])
                                      - name_fcloses(src[i][1], src[i][2])]
                       IN  /\ head' = attach_owners(head, curPid, sc.inode, nm)
                           /\ handles' = [handles EXCEPT
                                            !.name = @ + Sum(left, DOMAIN src)]
                           /\ lastName' =
                                {[comm |-> src[i][1], cmdline |-> src[i][2],
                                  name |-> head'[i].owners[1].name] :
                                    i \in DOMAIN src}
                ELSE UNCHANGED <<head, handles, lastName>>
    /\ UNCHANGED <<pc, cfgVars, parseVars, curPid, seenPids, skipLog,
                   nameFiles, printVars>>

\* readdir(fd) returns NULL: closedir(fd), next process.
ScanFdEnd ==
    /\ pc = "scan_fd"
    /\ handles' = [handles EXCEPT !.fd = @ - 1]
    /\ pc' = "scan_proc"
    /\ UNCHANGED <<cfgVars, head, parseVars, scanVars, printVars>>

NextScan ==
    \/ ScanOpenProcFail \/ ScanOpenProc \/ ScanProcSkip \/ ScanFdOpenFail
    \/ ScanFdOpen \/ ScanProcEnd \/ ScanFdDot \/ ScanLinkFail \/ ScanLink
    \/ ScanFdEnd

\* populate_owners runs to its end: the program takes its next step whenever
\* it has one.
SpecScan == InitScan /\ [][NextScan]_vars /\ WF_vars(NextScan)

\* The same scan over processes showing every combination of comm and cmdline.
InitName ==
    /\ pc = "scan_open"
    /\ g_show_all = FALSE
    /\ g_search_port = 0 /\ g_search_name = NoName /\ g_json = FALSE
    /\ g_sort_field = "SORT_PORT" /\ g_sort_reverse = FALSE
    /\ head \in ScanHeads
    /\ handles = NoHandles
    /\ tbl = NumTables /\ lineLog = <<>>
    /\ curPid = 0 /\ seenPids = {} /\ fdReads = 0 /\ linkLog = <<>>
    /\ skipLog = {} /\ lastName = {}
    /\ nameFiles = CommFiles \X CmdlineFiles
    /\ arr = <<>> /\ idx = 0 /\ firstEntry = TRUE /\ out = <<>>

SpecName == InitName /\ [][NextScan]_vars

\* parse_proc_net called with only_listen set, and populate_owners called on
\* a list of one record over processes showing every combination of comm and
\* cmdline; malloc may fail in the parse loop.
InitHandles ==
    \/ InitParse /\ ~g_show_all
    \/ InitName /\ Len(head) = 1

NextHandles == NextParse \/ ParseLineNoMem \/ NextScan

SpecHandles == InitHandles /\ [][NextHandles]_vars

----------------------------------------------------------------------------
(* Sorting, filtering and printing: print_entries, print_json, print_table *)

\* Most records in the list print_entries is run on.
MaxSort == 3

\* portable_strcasestr without the tolower calls.
strstr_case_sensitive(haystack, needle) ==
    IF needle = <<>> THEN TRUE
    ELSE \E p \in 1..Len(haystack) :
           \A i \in 0..(Len(needle) - 1) :
             p + i <= Len(haystack) /\ haystack[p + i] = needle[i + 1]

\* portable_strcasestr(haystack, needle) # NULL, for non-NULL arguments: some
\* start p at which the inner loop runs through the whole needle.
portable_strcasestr(haystack, needle) ==
    IF needle = <<>> THEN TRUE
    ELSE \E p \in 1..Len(haystack) :
           \A i \in 0..(Len(needle) - 1) :
             /\ p + i <= Len(haystack)
             /\ tolower(haystack[p + i]) = tolower(needle[i + 1])

\* entry_primary_pid: 0 without owners, else the smallest owner pid.
entry_primary_pid(e) ==
    IF e.owners = <<>> THEN 0
    ELSE CHOOSE m \in {e.owners[k].pid : k \in DOMAIN e.owners} :
           \A k \in DOMAIN e.owners : m <= e.owners[k].pid

\* Sign of a three-way comparison of two numbers.
Cmp3(a, b) == IF a < b THEN -1 ELSE IF a > b THEN 1 ELSE 0

\* cmp_with whose -r negates the primary key only, not the tie-break.
cmp_with_reverse_primary_only(ea, eb, field, reverse) ==
    LET sgn == IF reverse THEN -1 ELSE 1
    IN  CASE field = "SORT_PORT" ->
               IF ea.port # eb.port THEN sgn * Cmp3(ea.port, eb.port)
               ELSE strcmp(ea.proto, eb.proto)
          [] field = "SORT_PID" ->
               IF entry_primary_pid(ea) # entry_primary_pid(eb)
               THEN sgn * Cmp3(entry_primary_pid(ea), entry_primary_pid(eb))
               ELSE strcmp(ea.proto, eb.proto)
          [] field = "SORT_PROTO" ->
               IF strcmp(ea.proto, eb.proto) # 0
               THEN sgn * strcmp(ea.proto, eb.proto)
               ELSE Cmp3(ea.port, eb.port)

\* The body of cmp_entries for a given sort field and direction.
cmp_with(ea, eb, field, reverse) ==
    LET r == CASE field = "SORT_PORT" ->
                    IF ea.port < eb.port THEN -1
                    ELSE IF ea.port > eb.port THEN 1
                    ELSE strcmp(ea.proto, eb.proto)
               [] field = "SORT_PID" ->
                    LET pa == entry_primary_pid(ea)
                        pb == entry_primary_pid(eb)
                    IN  IF pa < pb THEN -1
                        ELSE IF pa > pb THEN 1
                        ELSE strcmp(ea.proto, eb.proto)
               [] field = "SORT_PROTO" ->
                    IF strcmp(ea.proto, eb.proto) # 0
                    THEN strcmp(ea.proto, eb.proto)
                    ELSE Cmp3(ea.port, eb.port)
    IN  IF reverse THEN -r ELSE r

\* cmp_entries: the comparator under the options of the run.
cmp_entries(ea, eb) == cmp_with(ea, eb, g_sort_field, g_sort_reverse)

\* The arrangements of the list h: h read through a permutation of its places.
Arrangements(h) ==
    {[i \in DOMAIN h |-> h[f[i]]] :
       f \in {g \in [DOMAIN h -> DOMAIN h] : \A i, j \in DOMAIN h : i # j => g[i] # g[j]}}

\* qsort(arr, n, sizeof(*arr), cmp_entries): any arrangement in which no
\* element compares greater than a later one; the place of elements that
\* compare equal is not specified.
qsort(h) ==
    {a \in Arrangements(h) :
       \A i, j \in DOMAIN a : i < j => cmp_entries(a[i], a[j]) <= 0}

\* The two filter tests at the top of the loops of print_json and print_table:
\* TRUE when the entry is printed.
passes_filters(e) ==
    /\ ~(g_search_port > 0 /\ e.port # g_search_port)
    /\ (~g_search_name.null /\ g_search_name.str # <<>>) =>
         \E k \in DOMAIN e.owners :
           portable_strcasestr(e.owners[k].name, g_search_name.str)

NoEntry == Entry(<<>>, <<>>, 0, 0)

\* An item written to stdout: punctuation of the JSON array, a JSON object, a
\* line of the table.
Item(kind, e) == [kind |-> kind, e |-> e]

Punct(kind) == Item(kind, NoEntry)

\* An owner_info list element.
Owner(pid, name) == [pid |-> pid, name |-> name]

WithOwners(e, owners) == [e EXCEPT !.owners = owners]

\* Records as the scan leaves them: sshd (comm in capitals) on tcp/22, an
\* unowned udp socket on port 22, nginx on tcp/80 of 0.0.0.0 held by two
\* processes, and an unowned tcp/80 socket bound to 127.0.0.1.
PrintEntries ==
    {WithOwners(Entry(Tcp, B(<<"0">>), 22, 1),
                <<Owner(100, B(<<"S", "S", "H", "D">>))>>),
     Entry(Udp, B(<<"0">>), 22, 2),
     WithOwners(Entry(Tcp, B(<<"0">>), 80, 3),
                <<Owner(7, B(<<"n", "g", "i", "n", "x">>)),
                  Owner(5, B(<<"n", "g", "i", "n", "x">>))>>),
     Entry(Tcp, B(<<"7", "F">>), 80, 4)}

PrintHeads ==
    {h \in SeqsUpTo(PrintEntries, MaxSort) :
       \A i, j \in DOMAIN h : i # j => h[i] # h[j]}

\* -n: not given, given empty, given "ssh".
SearchNames ==
    {NoName, [null |-> FALSE, str |-> <<>>],
     [null |-> FALSE, str |-> B(<<"s", "s", "h">>)]}

InitPrint ==
    /\ pc = "print_start"
    /\ g_show_all = FALSE
    /\ g_search_port \in {-1, 0, 22}      \* atoi(optarg): -p -1, no -p, -p 22
    /\ g_search_name \in SearchNames
    /\ g_json \in BOOLEAN
    /\ g_sort_field \in {"SORT_PORT", "SORT_PID", "SORT_PROTO"}
    /\ g_sort_reverse \in BOOLEAN
    /\ head \in PrintHeads
    /\ handles = NoHandles
    /\ tbl = NumTables /\ lineLog = <<>>
    /\ curPid = 0 /\ seenPids = {} /\ fdReads = 0 /\ linkLog = <<>>
    /\ skipLog = {} /\ lastName = {} /\ nameFiles = {}
    /\ arr = <<>> /\ idx = 0 /\ firstEntry = TRUE /\ out = <<>>

\* print_entries with n == 0: "[]" for -j, nothing otherwise.
PrintEmpty ==
    /\ pc = "print_start"
    /\ head = <<>>
    /\ out' = IF g_json THEN <<Punct("open"), Punct("close")>> ELSE <<>>
    /\ pc' = "print_done"
    /\ UNCHANGED <<cfgVars, head, handles, parseVars, scanVars, arr, idx,
                   firstEntry>>

\* print_entries with n > 0: the array is filled and sorted.
PrintSort ==
    /\ pc = "print_start"
    /\ head # <<>>
    /\ arr' \in qsort(head)
    /\ pc' = IF g_json THEN "json_open" ELSE "table_header"
    /\ UNCHANGED <<cfgVars, head, handles, parseVars, scanVars, idx,
                   firstEntry, out>>

\* print_json: printf("[") and firstEntry = true.
JsonOpen ==
    /\ pc = "json_open"
    /\ out' = Append(out, Punct("open"))
    /\ firstEntry' = TRUE /\ idx' = 0
    /\ pc' = "json_loop"
    /\ UNCHANGED <<cfgVars, head, handles, parseVars, scanVars, arr>>

\* One iteration of the loop of print_json on an entry a filter rejects.
JsonSkip ==
    /\ pc = "json_loop"
    /\ idx < Len(arr)
    /\ ~passes_filters(arr[idx + 1])
    /\ idx' = idx + 1
    /\ UNCHANGED <<pc, cfgVars, head, handles, parseVars, scanVars, arr,
                   firstEntry, out>>

\* A comma put before every object but the one at index 0.
JsonEmit_comma_by_index ==
    /\ pc = "json_loop"
    /\ idx < Len(arr)
    /\ passes_filters(arr[idx + 1])
    /\ out' = out \o (IF idx > 0 THEN <<Punct("comma")>> ELSE <<>>)
                  \o <<Item("object", arr[idx + 1])>>
    /\ firstEntry' = FALSE
    /\ idx' = idx + 1
    /\ UNCHANGED <<pc, cfgVars, head, handles, parseVars, scanVars, arr>>

\* One iteration of the loop of print_json on an entry that is printed.
JsonEmit ==
    /\ pc = "json_loop"
    /\ idx < Len(arr)
    /\ passes_filters(arr[idx + 1])
    /\ out' = out \o (IF ~firstEntry THEN <<Punct("comma")>> ELSE <<>>)
                  \o <<Item("object", arr[idx + 1])>>
    /\ firstEntry' = FALSE
    /\ idx' = idx + 1
    /\ UNCHANGED <<pc, cfgVars, head, handles, parseVars, scanVars, arr>>

\* print_json after its loop: printf("\n]\n").
JsonClose ==
    /\ pc = "json_loop"
    /\ idx = Len(arr)
    /\ out' = Append(out, Punct("close"))
    /\ pc' = "print_done"
    /\ UNCHANGED <<cfgVars, head, handles, parseVars, scanVars, arr, idx,
                   firstEntry>>

\* print_table: the two heading lines.
TableHeader ==
    /\ pc = "table_header"
    /\ out' = out \o <<Punct("heading"), Punct("rule")>>
    /\ idx' = 0
    /\ pc' = "table_loop"
    /\ UNCHANGED <<cfgVars, head, handles, parseVars, scanVars, arr,
                   firstEntry>>

\* One iteration of the loop of print_table on an entry a filter rejects.
TableSkip ==
    /\ pc = "table_loop"
    /\ idx < Len(arr)
    /\ ~passes_filters(arr[idx + 1])
    /\ idx' = idx + 1
    /\ UNCHANGED <<pc, cfgVars, head, handles, parseVars, scanVars, arr,
                   firstEntry, out>>

\* One iteration of the loop of print_table on an entry that is printed: the
\* row, ending in "(no owner found)" or in the pid/name list.
TableRow ==
    /\ pc = "table_loop"
    /\ idx < Len(arr)
    /\ passes_filters(arr[idx + 1])
    /\ out' = Append(out, Item(IF arr[idx + 1].owners = <<>>
                               THEN "row_no_owner" ELSE "row", arr[idx + 1]))
    /\ idx' = idx + 1
    /\ UNCHANGED <<pc, cfgVars, head, handles, parseVars, scanVars, arr,
                   firstEntry>>

TableEnd ==
    /\ pc = "table_loop"
    /\ idx = Len(arr)
    /\ pc' = "print_done"
    /\ UNCHANGED <<cfgVars, head, handles, parseVars, scanVars, printVars>>

NextPrint ==
    \/ PrintEmpty \/ PrintSort \/ JsonOpen \/ JsonSkip \/ JsonEmit
    \/ JsonClose \/ TableHeader \/ TableSkip \/ TableRow \/ TableEnd

SpecPrint == InitPrint /\ [][NextPrint]_vars

----------------------------------------------------------------------------
(* Claims about the table parser *)

Range(f) == {f[i] : i \in DOMAIN f}

\* The whitespace-separated tokens of each line a table may hold.
TokensOf == [l \in Lines \cup {HeaderText} |-> Tokenize(l)]

\* Token k of a line, numbered from 0 as in the text of the table format.
Token(l, k) == TokensOf[l][k + 1]

\* A data line is well formed: at least 4 tokens, and ':' in token 1.
WellFormedLine(l) == Len(TokensOf[l]) >= 4 /\ 58 \in Range(Token(l, 1))

\* The line passes the state filter of the run.
PassesState(l) == g_show_all \/ Token(l, 3) = <<48, 65>>

YieldsRecord(l) == WellFormedLine(l) /\ PassesState(l)

----------------------------------------------------------------------------
(* Claims about the owner scan *)

\* The link target of the socket with the given inode number.
SocketTarget(inode) == SocketPrefix \o Dec(inode) \o <<93>>

\* Number of positions of a sequence that satisfy P.
CountIn(seq, P(_)) == Cardinality({k \in DOMAIN seq : P(seq[k])})

C2_ZeroInodeNoOwner ==
    \A i \in DOMAIN head : head[i].inode = 0 => head[i].owners = <<>>

\* The scan read a link to socket:[0] while the list held a record of inode 0.
C2_Witness ==
    /\ pc = "scan_done"
    /\ \E i \in DOMAIN head : head[i].inode = 0
    /\ \E k \in DOMAIN linkLog : linkLog[k].target = SocketTarget(0)

\* The fields of the records that the scan must not touch.
Fields(h) ==
    [i \in DOMAIN h |-> <<h[i].proto, h[i].local_hex, h[i].port, h[i].inode>>]

OwnerPids(h) == UNION {{h[i].owners[k].pid : k \in DOMAIN h[i].owners} : i \in DOMAIN h}

\* C8: a fd directory that cannot be opened and a readlink that fails leave the
\* scan in its loop, on the next process or the next descriptor, with the list
\* as it was; no step of the scan removes a record or changes its proto,
\* address, port or inode; a process whose fd directory could not be opened
\* owns nothing; and the scan comes to its end.
C8_FailuresAreSkipped ==
    /\ [][/\ skipLog' # skipLog =>
               pc' = "scan_proc" /\ head' = head /\ handles' = handles
          /\ (fdReads' # fdReads /\ linkLog' = linkLog) =>
               pc' = "scan_fd" /\ head' = head /\ handles' = handles
                 /\ curPid' = curPid
          /\ Fields(head') = Fields(head)
          /\ OwnerPids(head') \cap skipLog' = {}]_vars
    /\ <>(pc = "scan_done")

\* The fd directory of process 1 could not be opened and a readlink failed,
\* and the scan still went on to attach process 2 to a record.
C8_Witness ==
    /\ pc = "scan_done"
    /\ skipLog = {1}
    /\ fdReads > Len(linkLog)
    /\ 2 \in OwnerPids(head)

\* The name the lookup must produce from what comm and cmdline hold.
RECURSIVE DropTrailingNuls(_)
DropTrailingNuls(s) ==
    IF s # <<>> /\ s[Len(s)] = 0 THEN DropTrailingNuls(SubSeq(s, 1, Len(s) - 1))
    ELSE s

ExpectedName(commF, cmdF) ==
    IF commF.open /\ commF.data # <<>>
    THEN IF commF.data[Len(commF.data)] = 10
         THEN SubSeq(commF.data, 1, Len(commF.data) - 1)
         ELSE commF.data
    ELSE IF cmdF.open /\ cmdF.data # <<>>
         THEN LET args == DropTrailingNuls(cmdF.data)
              IN  [k \in DOMAIN args |-> IF args[k] = 0 THEN 32 ELSE args[k]]
         ELSE <<63>>

\* C10: the name of every owner just added is comm without its trailing
\* newline when comm has content, else the arguments of cmdline joined by
\* blanks when cmdline is readable, and "?" only when neither is.
C10_NameFallback ==
    \A l \in lastName : l.name = ExpectedName(l.comm, l.cmdline)

----------------------------------------------------------------------------
(* Claims about sorting, filtering and printing *)

\* The entries of the rows (table) or objects (JSON) written so far, in order.
EmittedItems ==
    SelectSeq(out, LAMBDA it : it.kind \in {"object", "row", "row_no_owner"})

Emitted == [k \in DOMAIN EmittedItems |-> EmittedItems[k].e]

\* A string with its capital letters made small.
Lower(str) ==
    [k \in DOMAIN str |-> IF str[k] \in 65..90 THEN str[k] + 32 ELSE str[k]]

\* sub occurs in str as a run of consecutive bytes.
Contains(str, sub) ==
    \E k \in 0..(Len(str) - Len(sub)) : SubSeq(str, k + 1, k + Len(sub)) = sub

PortFilterSet == g_search_port > 0

NameFilterSet == ~g_search_name.null /\ g_search_name.str # <<>>

\* The record satisfies both filters of the run.
Selected(e) ==
    /\ PortFilterSet => e.port = g_search_port
    /\ NameFilterSet =>
         \E k \in DOMAIN e.owners :
           Contains(Lower(e.owners[k].name), Lower(g_search_name.str))

RECURSIVE LexOrder(_, _)
LexOrder(a, b) ==
    IF a = <<>> /\ b = <<>> THEN 0
    ELSE IF a = <<>> THEN -1
    ELSE IF b = <<>> THEN 1
    ELSE IF Head(a) < Head(b) THEN -1
    ELSE IF Head(a) > Head(b) THEN 1
    ELSE LexOrder(Tail(a), Tail(b))

\* The smallest owner pid of a record, 0 for a record without owners.
MinPid(e) ==
    IF Len(e.owners) = 0 THEN 0
    ELSE CHOOSE m \in Range([k \in DOMAIN e.owners |-> e.owners[k].pid]) :
           \A k \in DOMAIN e.owners : e.owners[k].pid >= m

\* The key chain of a sort field, compared: <<primary, tie-break>> as signs.
KeyOrder(a, b, field) ==
    CASE field = "SORT_PORT" -> <<Cmp3(a.port, b.port), LexOrder(a.proto, b.proto)>>
      [] field = "SORT_PID" -> <<Cmp3(MinPid(a), MinPid(b)), LexOrder(a.proto, b.proto)>>
      [] field = "SORT_PROTO" -> <<LexOrder(a.proto, b.proto), Cmp3(a.port, b.port)>>

\* key(a) <= key(b), key(a) >= key(b), key(a) = key(b) as pairs.
KeyLE(a, b, field) ==
    LET c == KeyOrder(a, b, field) IN c[1] < 0 \/ (c[1] = 0 /\ c[2] <= 0)

KeyGE(a, b, field) ==
    LET c == KeyOrder(a, b, field) IN c[1] > 0 \/ (c[1] = 0 /\ c[2] >= 0)

KeyEq(a, b, field) == KeyOrder(a, b, field) = <<0, 0>>

Reverse(seq) == [k \in DOMAIN seq |-> seq[Len(seq) + 1 - k]]

\* The records of the list have pairwise distinct keys.
DistinctKeys ==
    \A i, j \in DOMAIN head : i # j => ~KeyEq(head[i], head[j], g_sort_field)

\* The rows of a run without -r over the same list, when keys are distinct:
\* the selected records in ascending key order.
AscendingRows ==
    LET asc == CHOOSE a \in Arrangements(head) :
                 \A i, j \in DOMAIN a : i < j => KeyLE(a[i], a[j], g_sort_field)
    IN  SelectSeq(asc, Selected)

\* C6: the rows come in the order of the key chain of the sort field: without
\* -r no row has a greater key than a later row, with -r none has a smaller
\* one, tie-breaks included; and with -r, when the keys of the records are
\* pairwise distinct, the rows are those of the run without -r read backwards.
C6_RowsAreSorted ==
    pc = "print_done" =>
      /\ \A i, j \in DOMAIN Emitted :
           i < j => IF g_sort_reverse
                    THEN KeyGE(Emitted[i], Emitted[j], g_sort_field)
                    ELSE KeyLE(Emitted[i], Emitted[j], g_sort_field)
      /\ DistinctKeys =>
           Emitted = IF g_sort_reverse THEN Reverse(AscendingRows)
                     ELSE AscendingRows

\* Sorted by port with -r: udp/22 is printed before tcp/22, after tcp/80.
C6_Witness ==
    /\ pc = "print_done"
    /\ g_sort_field = "SORT_PORT" /\ g_sort_reverse
    /\ Len(Emitted) = 3
    /\ Emitted[1].port = 80
    /\ Emitted[2].port = 22 /\ Emitted[2].proto = Udp
    /\ Emitted[3].port = 22 /\ Emitted[3].proto = Tcp

\* C7: the rows are fixed by the records and the options alone: every order
\* in which the sort may leave the same records gives the rows that were
\* printed.
C7_OrderIsDetermined ==
    pc = "print_done" =>
      \A a \in qsort(head) : SelectSeq(a, passes_filters) = Emitted

----------------------------------------------------------------------------
(* Claims about file and directory handles *)

\* C11: every handle parse_proc_net and populate_owners open is closed on
\* every path: whenever parse_proc_net has returned no table file is open,
\* when populate_owners has returned no /proc directory, fd directory, comm
\* or cmdline file is open, and at no moment is more than one fd directory
\* (or more than one table file) open.
C11_HandlesClosed ==
    /\ pc \in {"parse_open", "parsed"} => handles.table = 0
    /\ pc = "scan_done" => handles = NoHandles
    /\ pc = "scan_proc" => handles.fd = 0 /\ handles.name = 0
    /\ handles.fd <= 1
    /\ handles.table <= 1

\* populate_owners has returned after one process whose fd directory could
\* not be opened and one whose descriptor matched a record, the name lookup
\* having opened a comm file that was empty; nothing is left open.
C11_Witness ==
    /\ pc = "scan_done"
    /\ skipLog # {}
    /\ linkLog # <<>>
    /\ \E n \in lastName : n.comm.open /\ n.comm.data = <<>>
    /\ \E i \in DOMAIN head : head[i].owners # <<>>
    /\ handles = NoHandles

----------------------------------------------------------------------------
(* Claims about the order of the owners of a record *)

\* The pids of the owner list of a record, from e->owners along next: the
\* order the print loops walk it in.
OwnerOrder(e) == [k \in DOMAIN e.owners |-> e.owners[k].pid]

\* The pids of the links read so far that name socket:[inode], in the order
\* the scan read them.
DiscoveryOrder(inode) ==
    LET hits == SelectSeq(linkLog, LAMBDA l : l.target = SocketTarget(inode))
    IN  [k \in DOMAIN hits |-> hits[k].pid]

\* C12 as stated: the owners of every record with a non-zero inode are in
\* discovery order - a process whose matching descriptor was read earlier
\* comes earlier in the owner list.
C12_OwnersInDiscoveryOrder ==
    \A i \in DOMAIN head :
      head[i].inode # 0 => OwnerOrder(head[i]) = DiscoveryOrder(head[i].inode)

\* C12 amended: the owners of every record with a non-zero inode are in
\* reverse discovery order - a process whose matching descriptor was read
\* earlier comes later in the owner list, at every moment of the scan.
C12_OwnersInReverseDiscoveryOrder ==
    \A i \in DOMAIN head :
      head[i].inode # 0 =>
        OwnerOrder(head[i]) = Reverse(DiscoveryOrder(head[i].inode))

\* The scan has ended; it read a descriptor of socket:[1] in process 1 and
\* then one in process 2, and the record of inode 1 lists process 2 first.
C12_Witness ==
    /\ pc = "scan_done"
    /\ DiscoveryOrder(1) = <<1, 2>>
    /\ \E i \in DOMAIN head :
         head[i].inode = 1 /\ OwnerOrder(head[i]) = <<2, 1>>

====
